---------------------------- MODULE Spec2Model ----------------------------
(***************************************************************************)
(* A model of the celtic-knot weaving engine (src/celtic-knot.py): the     *)
(* directed-loop primitives, the plain-weave twist assigner, the strand    *)
(* tracer visit_strands and the StrandAnalysisBuilder.                     *)
(*                                                                         *)
(* Conventions.  Python lists are TLA+ sequences, so positions are 1-based *)
(* here where they are 0-based in the source (vertex, edge and loop        *)
(* handles).  Values that the program computes with (strand indices,       *)
(* braid ids, loop.index) keep the program's 0-based numbering.            *)
(***************************************************************************)
EXTENDS Integers, Sequences, FiniteSets, TLC

VARIABLES
    bm,             \* the mesh handed to the engine (record built by BMeshFromPydata)
    twists,         \* twists: one Twist per edge, by edge position
    pc,             \* position of the running routine
    scan,           \* visit_strands: position of the outer for-loops
    d,              \* make_loop: the cursor DirectedLoop
    d0,             \* history: the DirectedLoop make_loop was called with
    loops_entered,  \* visit_strands.loops_entered: loops marked True
    loops_exited,   \* visit_strands.loops_exited: loops marked True
    sab,            \* the StrandAnalysisBuilder's fields
    calls,          \* history: the builder calls made so far
    braids_out,     \* the dict returned by get_braids(), once called
    twist_prob,     \* get_celtic_twists: twist_prob, in units of 1/RandRange
    stream,         \* the generator's output at each of its states
    rng,            \* the state of the module-level random generator
    results,        \* the twist arrays returned by get_celtic_twists so far
    orig_bm,        \* execute: the mesh before remesh() was applied
    remesh_type,    \* execute: the remesh type applied to orig_bm
    twill,          \* get_twill_twists: its locals (coloring, frontier, ...)
    color_log,      \* history: the latest color_edge call of get_twill_twists
    weave_up,       \* execute: self.weave_up, as handed to create_bezier
    weave_down,     \* execute: self.weave_down, as handed to create_bezier
    offsets         \* the get_offset value of each add_loop call of the BezierBuilder

vars == << bm, twists, pc, scan, d, d0, loops_entered, loops_exited,
           sab, calls, braids_out, twist_prob, stream, rng, results,
           orig_bm, remesh_type, twill, color_log, weave_up, weave_down,
           offsets >>

-----------------------------------------------------------------------------
(* Twist types                                                             *)

TWIST_CW == "TWIST_CW"

STRAIGHT == "STRAIGHT"

TWIST_CCW == "TWIST_CCW"

IGNORE == "IGNORE"

TwistTypes == {TWIST_CW, STRAIGHT, TWIST_CCW, IGNORE}

-----------------------------------------------------------------------------
(* General helpers                                                         *)

SetMin(S) == CHOOSE x \in S : \A y \in S : x <= y

Range(s) == {s[i] : i \in DOMAIN s}

\* d.get(k, default) of a Python dict / the read of a defaultdict
DictGet(dict, k, default) == IF k \in DOMAIN dict THEN dict[k] ELSE default

\* dict[k] = v
DictSet(dict, k, v) == [x \in DOMAIN dict \cup {k} |-> IF x = k THEN v ELSE dict[x]]

EmptyDict == [x \in {} |-> x]

-----------------------------------------------------------------------------
(* The mesh.  A mesh is described by its vertex count, its faces (each a   *)
(* cycle of vertices) and its wire edges; BMeshFromPydata lays out the     *)
(* half-edge structure the engine reads through bmesh's link_* accessors.  *)

RECURSIVE SumLen(_, _)
SumLen(fs, n) == IF n = 0 THEN 0 ELSE SumLen(fs, n - 1) + Len(fs[n])

\* the vertex pair of the edge leaving corner i of face f
CornerEdge(fs, f, i) == {fs[f][i], fs[f][(i % Len(fs[f])) + 1]}

\* the entries of s in the order of their first appearance
Dedup(s) ==
    LET firsts == {i \in DOMAIN s : \A j \in 1..(i - 1) : s[j] # s[i]}
    IN  [k \in 1..Cardinality(firsts) |->
            s[CHOOSE i \in firsts : Cardinality({j \in firsts : j < i}) = k - 1]]

IndexOf(s, x) == CHOOSE j \in DOMAIN s : s[j] = x

\* the concatenation of a list of lists
RECURSIVE FlattenTo(_, _)
FlattenTo(ss, n) == IF n = 0 THEN << >> ELSE FlattenTo(ss, n - 1) \o ss[n]

Flatten(ss) == FlattenTo(ss, Len(ss))

BMeshFromPydata(nverts, faces, wires) ==
    LET nloops == SumLen(faces, Len(faces))
        \* the (face, corner) of each loop, the loops taken face by face
        corner == Flatten([f \in DOMAIN faces |->
                              [i \in 1..Len(faces[f]) |-> <<f, i>>]])
        loopof(f, i) == SumLen(faces, f - 1) + i
        edges  == Dedup([l \in 1..nloops |-> CornerEdge(faces, corner[l][1], corner[l][2])]
                        \o wires)
        ledge  == [l \in 1..nloops |->
                     IndexOf(edges, CornerEdge(faces, corner[l][1], corner[l][2]))]
        \* bmesh_from_pydata: loop.index is handed out edge by edge
        byedge == [l \in 1..nloops |->
                     Cardinality({m \in 1..nloops :
                        \/ ledge[m] < ledge[l]
                        \/ ledge[m] = ledge[l] /\ m < l})]
        RECURSIVE Sorted(_)
        Sorted(S) == IF S = {} THEN << >>
                     ELSE LET x == SetMin(S) IN <<x>> \o Sorted(S \ {x})
    IN  [ nverts     |-> nverts,
          edges      |-> edges,
          edge_loops |-> [e \in DOMAIN edges |->
                            Sorted({l \in 1..nloops : ledge[l] = e})],
          faces      |-> [f \in DOMAIN faces |->
                            [i \in 1..Len(faces[f]) |-> loopof(f, i)]],
          loop_face  |-> [l \in 1..nloops |-> corner[l][1]],
          loop_vert  |-> [l \in 1..nloops |-> faces[corner[l][1]][corner[l][2]]],
          loop_edge  |-> ledge,
          loop_next  |-> [l \in 1..nloops |->
                            loopof(corner[l][1],
                                   (corner[l][2] % Len(faces[corner[l][1]])) + 1)],
          loop_prev  |-> [l \in 1..nloops |->
                            loopof(corner[l][1],
                                   ((corner[l][2] + Len(faces[corner[l][1]]) - 2)
                                      % Len(faces[corner[l][1]])) + 1)],
          loop_index |-> byedge ]

Loops(m) == DOMAIN m.loop_vert

Edges(m) == DOMAIN m.edges

\* edge.link_loops: the loops of the edge, in radial order
EdgeLinkLoops(m, e) == m.edge_loops[e]

\* loop.link_loops: the other loops of the loop's edge, in radial order
\* starting after the loop itself
LinkLoops(m, l) ==
    LET all == EdgeLinkLoops(m, m.loop_edge[l])
        k   == IndexOf(all, l)
    IN  SubSeq(all, k + 1, Len(all)) \o SubSeq(all, 1, k - 1)

\* vert.link_edges
VertLinkEdges(m, v) == {e \in Edges(m) : v \in m.edges[e]}

is_boundary(m, l) == Len(LinkLoops(m, l)) = 0

-----------------------------------------------------------------------------
(* DirectedLoop: an edge loop and a facing along it                        *)

DirectedLoop(loop, forward) == [loop |-> loop, forward |-> forward]

FaceStep(m, l, forward) == IF forward THEN m.loop_next[l] ELSE m.loop_prev[l]

RECURSIVE FaceWalk(_, _, _, _)
FaceWalk(m, l, forward, k) ==
    IF k = 0 THEN l ELSE FaceWalk(m, FaceStep(m, l, forward), forward, k - 1)

\* next_face_loop without the skip of boundary loops
FaceLoopStops_boundary_not_skipped(m, dl) == {k \in {1} : TRUE}

\* the numbers of steps around the face after which the while-loop of
\* next_face_loop may break; the loop never ends when there is none
FaceLoopStops(m, dl) ==
    {k \in 1..Len(m.faces[m.loop_face[dl.loop]]) :
        ~is_boundary(m, FaceWalk(m, dl.loop, dl.forward, k))}

next_face_loop(m, dl) ==
    DirectedLoop(FaceWalk(m, dl.loop, dl.forward, SetMin(FaceLoopStops(m, dl))),
                 dl.forward)

\* link_loops[0] / link_loops[-1] raise IndexError on a boundary loop
EdgeLoopDefined(m, dl) == Len(LinkLoops(m, dl.loop)) > 0

\* next_edge_loop with the flag carried over unchanged
next_edge_loop_flag_kept(m, dl) ==
    LET links == LinkLoops(m, dl.loop)
        loop  == IF dl.forward THEN links[1] ELSE links[Len(links)]
    IN  DirectedLoop(loop, dl.forward)

\* next_edge_loop with the new flag not compared against the prior one
next_edge_loop_flag_not_compared(m, dl) ==
    LET links == LinkLoops(m, dl.loop)
        v     == m.loop_vert[dl.loop]
        loop  == IF dl.forward THEN links[1] ELSE links[Len(links)]
    IN  DirectedLoop(loop, m.loop_vert[loop] = v)

next_edge_loop(m, dl) ==
    LET links == LinkLoops(m, dl.loop)
        v     == m.loop_vert[dl.loop]
        loop  == IF dl.forward THEN links[1] ELSE links[Len(links)]
    IN  DirectedLoop(loop, (m.loop_vert[loop] = v) = dl.forward)

-----------------------------------------------------------------------------
(* StrandAnalysisBuilder                                                   *)

strand_part(m, prev_loop, loop, forward) ==
    << forward, {m.loop_index[prev_loop], m.loop_index[loop]} >>

SAB_init ==
    [ crossings            |-> EmptyDict,
      current_strand_index |-> 0,
      strand_indices       |-> EmptyDict,
      strand_size          |-> EmptyDict ]

SAB_start_strand(b) == b

\* add_loop recording the crossing for the wrong twists
SAB_add_loop_wrong_twist(b, edge_index, part, twist) ==
    [ b EXCEPT
        !.crossings =
            IF twist = STRAIGHT
            THEN DictSet(@, edge_index,
                         Append(DictGet(@, edge_index, << >>), b.current_strand_index))
            ELSE @,
        !.strand_indices = DictSet(@, part, b.current_strand_index),
        !.strand_size =
            DictSet(@, b.current_strand_index,
                    DictGet(@, b.current_strand_index, 0) + 1) ]

\* add_loop, with loop.edge.index and strand_part(prev_loop, loop, forward)
\* already taken from the mesh
SAB_add_loop(b, edge_index, part, twist) ==
    [ b EXCEPT
        !.crossings =
            IF twist # STRAIGHT
            THEN DictSet(@, edge_index,
                         Append(DictGet(@, edge_index, << >>), b.current_strand_index))
            ELSE @,
        !.strand_indices = DictSet(@, part, b.current_strand_index),
        !.strand_size =
            DictSet(@, b.current_strand_index,
                    DictGet(@, b.current_strand_index, 0) + 1) ]

\* end_strand leaving the strand index as it is
SAB_end_strand_no_increment(b) == b

SAB_end_strand(b) == [b EXCEPT !.current_strand_index = @ + 1]

SAB_all_crossings(b) ==
    { {l[i], l[j]} : <<l, i, j>> \in
        { t \in UNION { {<<b.crossings[e], i, j>> :
                            i \in DOMAIN b.crossings[e], j \in DOMAIN b.crossings[e]} :
                        e \in DOMAIN b.crossings } :
            t[1][t[2]] # t[1][t[3]] } }

SAB_get_strands(b) == b.strand_indices

SAB_get_strand_sizes(b) == b.strand_size

\* the for-loop of get_braids without its break: the else branch always runs
FirstFreeBraid_no_break(braid_count, crossed_braids) == braid_count

\* the for/else of get_braids: the first b in range(braid_count) that is not
\* crossed, else braid_count
FirstFreeBraid(braid_count, crossed_braids) ==
    LET free == {c \in 0..(braid_count - 1) : c \notin crossed_braids}
    IN  IF free # {} THEN SetMin(free) ELSE braid_count

\* the state (braids, braid_count) of get_braids after its loop has run for
\* s in range(n)
RECURSIVE BraidLoop(_, _)
BraidLoop(b, n) ==
    IF n = 0 THEN [braids |-> EmptyDict, braid_count |-> 0]
    ELSE LET st == BraidLoop(b, n - 1)
             s  == n - 1
             crossed_braids ==
                 { st.braids[t] : t \in
                     { u \in UNION {p \in SAB_all_crossings(b) : s \in p} :
                         u \in DOMAIN st.braids } }
             c  == FirstFreeBraid(st.braid_count, crossed_braids)
         IN  [ braids      |-> DictSet(st.braids, s, c),
               braid_count |-> IF c = st.braid_count THEN st.braid_count + 1
                               ELSE st.braid_count ]

\* braids is a defaultdict(list): a strand index it does not hold reads as []
SAB_get_braids(b) ==
    LET braids == BraidLoop(b, b.current_strand_index).braids
    IN  [k \in DOMAIN b.strand_indices |-> DictGet(braids, b.strand_indices[k], << >>)]

-----------------------------------------------------------------------------
(* Input meshes.  Every edge has at most two loops, so the radial order of *)
(* link_loops plays no part.                                               *)

Mesh(nverts, faces, wires) == [nverts |-> nverts, faces |-> faces, wires |-> wires]

\* a single isolated quad face
SingleQuad == Mesh(4, << <<1, 2, 3, 4>> >>, << >>)

\* two triangles sharing the edge {1,3}, consistently oriented
TwoTriangles == Mesh(4, << <<1, 2, 3>>, <<1, 3, 4>> >>, << >>)

\* the same with the second triangle flipped
TwoTrianglesFlipped == Mesh(4, << <<1, 2, 3>>, <<1, 4, 3>> >>, << >>)

\* a closed tetrahedron, consistently oriented
Tetrahedron == Mesh(4, << <<1, 2, 3>>, <<1, 4, 2>>, <<2, 4, 3>>, <<3, 4, 1>> >>, << >>)

\* a tetrahedron with one face flipped
TetrahedronFlipped ==
    Mesh(4, << <<1, 2, 3>>, <<1, 4, 2>>, <<2, 4, 3>>, <<1, 4, 3>> >>, << >>)

\* three triangles around vertex 4: every face has one boundary loop
OpenFan == Mesh(4, << <<1, 4, 2>>, <<2, 4, 3>>, <<3, 4, 1>> >>, << >>)

\* a quad and a triangle sharing one edge, and a wire edge
QuadTriangleWire == Mesh(6, << <<1, 2, 3, 4>>, <<1, 5, 2>> >>, << {5, 6} >>)

\* a closed square pyramid
Pyramid ==
    Mesh(5, << <<1, 2, 3, 4>>, <<2, 1, 5>>, <<3, 2, 5>>, <<4, 3, 5>>, <<1, 4, 5>> >>,
         << >>)

\* a Moebius band of five triangles: no consistent orientation exists
MoebiusBand ==
    Mesh(5, << <<1, 2, 3>>, <<2, 3, 4>>, <<3, 4, 5>>, <<4, 5, 1>>, <<5, 1, 2>> >>,
         << >>)

\* a closed triangular prism
Prism ==
    Mesh(6, << <<1, 2, 3>>, <<4, 6, 5>>, <<1, 4, 5, 2>>, <<2, 5, 6, 3>>, <<3, 6, 4, 1>> >>,
         << >>)

\* four quads around a tube open at both ends: the rungs {1,5}, {2,6},
\* {3,7}, {4,8} are interior edges, the edges of the two rims are boundary
\* edges, two in every face
QuadTube ==
    Mesh(8, << <<1, 2, 6, 5>>, <<2, 3, 7, 6>>, <<3, 4, 8, 7>>, <<4, 1, 5, 8>> >>, << >>)

SmallMeshes ==
    { SingleQuad, TwoTriangles, TwoTrianglesFlipped, Tetrahedron, TetrahedronFlipped,
      OpenFan, QuadTriangleWire }

LargeMeshes == { Pyramid, MoebiusBand, Prism }

\* the meshes get_twill_twists is run on
TwillMeshes == SmallMeshes \cup LargeMeshes \cup {QuadTube}

BuildMesh(md) == BMeshFromPydata(md.nverts, md.faces, md.wires)

-----------------------------------------------------------------------------
(* visit_strands, with a StrandAnalysisBuilder as the builder              *)

NoCall(op) ==
    [op |-> op, prev_loop |-> 0, loop |-> 0, twist |-> "", forward |-> FALSE]

AddLoopCall(prev_loop, loop, twist, forward) ==
    [op |-> "add_loop", prev_loop |-> prev_loop, loop |-> loop, twist |-> twist,
     forward |-> forward]

\* the add_loop calls among the calls
AddCalls(cs) == {i \in DOMAIN cs : cs[i].op = "add_loop"}

\* The outer for-loops visit the loops face by face, which is the order of
\* the loop handles; position 2*(l-1) is the test of loops_exited[l] and
\* position 2*(l-1)+1 the test of loops_entered[l].
ScanLoop(p) == (p \div 2) + 1

ScanForward(p) == p % 2 = 0

\* the outer loops without the skip of boundary loops
ScanStarts_boundary_not_skipped(m, p, entered, exited) ==
    IF ScanForward(p) THEN ScanLoop(p) \notin exited
                      ELSE ScanLoop(p) \notin entered

ScanStarts(m, p, entered, exited) ==
    /\ ~is_boundary(m, ScanLoop(p))
    /\ IF ScanForward(p) THEN ScanLoop(p) \notin exited
                         ELSE ScanLoop(p) \notin entered

ScanLeft(m, from, entered, exited) ==
    {p \in from..(2 * Cardinality(Loops(m)) - 1) : ScanStarts(m, p, entered, exited)}

\* the break test reading loops_entered in both branches
AtBreak_entered_only(dl, entered, exited) == dl.loop \in entered

\* the test that breaks out of the while-loop of make_loop
AtBreak(dl, entered, exited) ==
    IF dl.forward THEN dl.loop \in exited ELSE dl.loop \in entered

\* the assertion made on the loop that next_face_loop lands on
LandingAssert(forward, landed, entered, exited) ==
    IF forward THEN landed \notin entered ELSE landed \notin exited

IsCrossing(twist) == twist \in {TWIST_CCW, TWIST_CW}

\* the outer loops reach an untouched directed loop: make_loop is called
StartStrand ==
    /\ pc = "scan"
    /\ ScanLeft(bm, scan, loops_entered, loops_exited) # {}
    /\ LET p == SetMin(ScanLeft(bm, scan, loops_entered, loops_exited))
       IN  /\ d' = DirectedLoop(ScanLoop(p), ScanForward(p))
           /\ d0' = DirectedLoop(ScanLoop(p), ScanForward(p))
           /\ scan' = p + 1
    /\ sab' = SAB_start_strand(sab)
    /\ calls' = Append(calls, NoCall("start_strand"))
    /\ pc' = "walk"
    /\ UNCHANGED << weave_up, weave_down, offsets, orig_bm, remesh_type, twill, color_log, bm, twists, loops_entered, loops_exited, braids_out,
                    twist_prob, stream, rng, results >>

\* one turn of the while-loop of make_loop that does not break
WalkStep ==
    /\ pc = "walk"
    /\ ~AtBreak(d, loops_entered, loops_exited)
    /\ loops_exited' = IF d.forward THEN loops_exited \cup {d.loop}
                       ELSE IF /\ FaceLoopStops(bm, d) # {}
                               /\ LandingAssert(FALSE, next_face_loop(bm, d).loop,
                                                loops_entered, loops_exited)
                            THEN loops_exited \cup {next_face_loop(bm, d).loop}
                            ELSE loops_exited
    /\ loops_entered' = IF ~d.forward THEN loops_entered \cup {d.loop}
                        ELSE IF /\ FaceLoopStops(bm, d) # {}
                                /\ LandingAssert(TRUE, next_face_loop(bm, d).loop,
                                                 loops_entered, loops_exited)
                             THEN loops_entered \cup {next_face_loop(bm, d).loop}
                             ELSE loops_entered
    /\ IF FaceLoopStops(bm, d) = {}
       THEN \* next_face_loop never returns
            /\ pc' = "hang"
            /\ UNCHANGED << d, sab, calls >>
       ELSE LET landed == next_face_loop(bm, d)
                twist  == twists[bm.loop_edge[landed.loop]]
            IN  IF \/ ~LandingAssert(d.forward, landed.loop, loops_entered, loops_exited)
                   \/ IsCrossing(twist) /\ ~EdgeLoopDefined(bm, landed)
                THEN \* AssertionError (or IndexError) ends the pass
                     /\ pc' = "fault"
                     /\ d' = landed
                     /\ UNCHANGED << sab, calls >>
                ELSE LET nd == IF IsCrossing(twist) THEN next_edge_loop(bm, landed)
                               ELSE landed
                     IN  /\ d' = nd
                         /\ sab' = SAB_add_loop(sab, bm.loop_edge[nd.loop],
                                       strand_part(bm, landed.loop, nd.loop, nd.forward),
                                       twist)
                         /\ calls' = Append(calls,
                                       AddLoopCall(landed.loop, nd.loop, twist, nd.forward))
                         /\ pc' = "walk"
    /\ UNCHANGED << weave_up, weave_down, offsets, orig_bm, remesh_type, twill, color_log, bm, twists, scan, d0, braids_out, twist_prob, stream, rng, results >>

\* the while-loop breaks and make_loop returns
EndStrand ==
    /\ pc = "walk"
    /\ AtBreak(d, loops_entered, loops_exited)
    /\ sab' = SAB_end_strand(sab)
    /\ calls' = Append(calls, NoCall("end_strand"))
    /\ pc' = "scan"
    /\ UNCHANGED << weave_up, weave_down, offsets, orig_bm, remesh_type, twill, color_log, bm, twists, scan, d, d0, loops_entered, loops_exited, braids_out,
                    twist_prob, stream, rng, results >>

\* the outer loops run out: visit_strands returns
EndVisit ==
    /\ pc = "scan"
    /\ ScanLeft(bm, scan, loops_entered, loops_exited) = {}
    /\ pc' = "done"
    /\ UNCHANGED << weave_up, weave_down, offsets, orig_bm, remesh_type, twill, color_log, bm, twists, scan, d, d0, loops_entered, loops_exited, sab, calls,
                    braids_out, twist_prob, stream, rng, results >>

\* CelticKnotOperator.execute: materials = get_analysis().get_braids()
GetBraids ==
    /\ pc = "done"
    /\ braids_out' = SAB_get_braids(sab)
    /\ pc' = "analysed"
    /\ UNCHANGED << weave_up, weave_down, offsets, orig_bm, remesh_type, twill, color_log, bm, twists, scan, d, d0, loops_entered, loops_exited, sab, calls,
                    twist_prob, stream, rng, results >>

TwistArrays(md) ==
    IF md \in SmallMeshes
    THEN [1..Len(BuildMesh(md).edges) -> TwistTypes]
    ELSE [1..Len(BuildMesh(md).edges) -> {TWIST_CW, TWIST_CCW}]

NoLoop == DirectedLoop(0, TRUE)

\* the locals of get_twill_twists while it is not running
TwillIdle ==
    [ coloring |-> << >>, frontier |-> {}, cached_votes |-> EmptyDict,
      todo |-> {}, found |-> FALSE ]

InitTrace ==
    /\ \E md \in SmallMeshes \cup LargeMeshes :
          /\ bm = BuildMesh(md)
          /\ twists \in TwistArrays(md)
    /\ pc = "scan"
    /\ scan = 0
    /\ d = NoLoop
    /\ d0 = NoLoop
    /\ loops_entered = {}
    /\ loops_exited = {}
    /\ sab = SAB_init
    /\ calls = << >>
    /\ braids_out = EmptyDict
    /\ twist_prob = 0
    /\ stream = << >>
    /\ rng = 0
    /\ results = << >>
    /\ orig_bm = bm
    /\ weave_up = 0
    /\ weave_down = 0
    /\ offsets = << >>
    /\ remesh_type = "NONE"
    /\ twill = TwillIdle
    /\ color_log = << >>

NextTrace == StartStrand \/ WalkStep \/ EndStrand \/ EndVisit \/ GetBraids

SpecTrace == InitTrace /\ [][NextTrace]_vars

-----------------------------------------------------------------------------
(* The StrandAnalysisBuilder driven directly: any well-bracketed sequence  *)
(* of start_strand / add_loop / end_strand calls, then get_braids().  Each *)
(* add_loop lands on one of NumBuilderEdges edges, whose twist is the      *)
(* edge's entry of twists, with a loop that no earlier call has used.      *)

MaxStrands == 3

MaxAdds == 4

NumBuilderEdges == 2

NoMesh == BMeshFromPydata(0, << >>, << >>)

\* the loops handed to add_loop: loop number n has loop.index n
LoopHandles == [loop_index |-> [l \in 0..(2 * MaxStrands + MaxAdds) |-> l]]

BuilderStart ==
    /\ pc = "idle"
    /\ sab.current_strand_index < MaxStrands
    /\ sab' = SAB_start_strand(sab)
    /\ calls' = Append(calls, NoCall("start_strand"))
    /\ pc' = "open"
    /\ UNCHANGED << weave_up, weave_down, offsets, orig_bm, remesh_type, twill, color_log, bm, twists, scan, d, d0, loops_entered, loops_exited, braids_out,
                    twist_prob, stream, rng, results >>

BuilderAdd ==
    /\ pc = "open"
    /\ Cardinality(AddCalls(calls)) < MaxAdds
    /\ \E e \in 1..NumBuilderEdges :
          LET loop == Len(calls)
          IN  /\ sab' = SAB_add_loop(sab, e, strand_part(LoopHandles, loop, loop, TRUE),
                                    twists[e])
              /\ calls' = Append(calls, AddLoopCall(loop, loop, twists[e], TRUE))
    /\ pc' = "open"
    /\ UNCHANGED << weave_up, weave_down, offsets, orig_bm, remesh_type, twill, color_log, bm, twists, scan, d, d0, loops_entered, loops_exited, braids_out,
                    twist_prob, stream, rng, results >>

BuilderEnd ==
    /\ pc = "open"
    /\ sab' = SAB_end_strand(sab)
    /\ calls' = Append(calls, NoCall("end_strand"))
    /\ pc' = "idle"
    /\ UNCHANGED << weave_up, weave_down, offsets, orig_bm, remesh_type, twill, color_log, bm, twists, scan, d, d0, loops_entered, loops_exited, braids_out,
                    twist_prob, stream, rng, results >>

BuilderGetBraids ==
    /\ pc = "idle"
    /\ braids_out' = SAB_get_braids(sab)
    /\ pc' = "queried"
    /\ UNCHANGED << weave_up, weave_down, offsets, orig_bm, remesh_type, twill, color_log, bm, twists, scan, d, d0, loops_entered, loops_exited, sab, calls,
                    twist_prob, stream, rng, results >>

InitBuilder ==
    /\ bm = NoMesh
    /\ twists \in [1..NumBuilderEdges -> TwistTypes]
    /\ pc = "idle"
    /\ scan = 0
    /\ d = NoLoop
    /\ d0 = NoLoop
    /\ loops_entered = {}
    /\ loops_exited = {}
    /\ sab = SAB_init
    /\ calls = << >>
    /\ braids_out = EmptyDict
    /\ twist_prob = 0
    /\ stream = << >>
    /\ rng = 0
    /\ results = << >>
    /\ orig_bm = bm
    /\ weave_up = 0
    /\ weave_down = 0
    /\ offsets = << >>
    /\ remesh_type = "NONE"
    /\ twill = TwillIdle
    /\ color_log = << >>

NextBuilder == BuilderStart \/ BuilderAdd \/ BuilderEnd \/ BuilderGetBraids

SpecBuilder == InitBuilder /\ [][NextBuilder]_vars

-----------------------------------------------------------------------------
(* get_celtic_twists and the module-level random generator.  The generator *)
(* has RngPeriod states; seed(a) puts it in state a, random() returns the  *)
(* output of the current state and moves to the next.  Its outputs are the *)
(* multiples of 1/RandRange below 1; which output each state gives is not  *)
(* fixed by the model (stream).  twist_prob is counted in the same unit,   *)
(* so RandRange stands for the probability 1.0.                            *)

RandRange == 2

RngPeriod == 3

MaxCalls == 2

MaxDraws == 2

seed(a) == a % RngPeriod

RandomValue(strm, r) == strm[r]

RandomNext(r) == (r + 1) % RngPeriod

\* the generator as get_celtic_twists leaves it at entry, but never seeded
EntryState_not_seeded(r) == r

\* the generator after the first statement of get_celtic_twists
EntryState(r) == seed(0)

\* the twist drawn with <= in place of <
PlainTwist_or_equal(value, prob) == IF value <= prob THEN TWIST_CW ELSE STRAIGHT

\* TWIST_CW if random() < twist_prob else STRAIGHT
PlainTwist(value, prob) == IF value < prob THEN TWIST_CW ELSE STRAIGHT

\* the state (twists, generator) of get_celtic_twists after the first n edges
RECURSIVE CelticLoop(_, _, _, _, _)
CelticLoop(m, prob, strm, r, n) ==
    IF n = 0 THEN [twists |-> << >>, rng |-> EntryState(r)]
    ELSE LET st == CelticLoop(m, prob, strm, r, n - 1)
         IN  IF Len(EdgeLinkLoops(m, n)) = 0
             THEN [twists |-> Append(st.twists, IGNORE), rng |-> st.rng]
             ELSE [twists |-> Append(st.twists,
                                     PlainTwist(RandomValue(strm, st.rng), prob)),
                   rng    |-> RandomNext(st.rng)]

get_celtic_twists(m, prob, strm, r) == CelticLoop(m, prob, strm, r, Len(m.edges))

\* one invocation of get_celtic_twists on the mesh
CallCelticTwists ==
    /\ pc = "plain"
    /\ Len(results) < MaxCalls
    /\ results' = Append(results, get_celtic_twists(bm, twist_prob, stream, rng).twists)
    /\ rng' = get_celtic_twists(bm, twist_prob, stream, rng).rng
    /\ calls' = Append(calls, NoCall("get_celtic_twists"))
    /\ UNCHANGED << weave_up, weave_down, offsets, orig_bm, remesh_type, twill, color_log, bm, twists, pc, scan, d, d0, loops_entered, loops_exited, sab,
                    braids_out, twist_prob, stream >>

\* some other code draws from the generator
DrawElsewhere ==
    /\ pc = "plain"
    /\ Cardinality({i \in DOMAIN calls : calls[i].op = "random"}) < MaxDraws
    /\ rng' = RandomNext(rng)
    /\ calls' = Append(calls, NoCall("random"))
    /\ UNCHANGED << weave_up, weave_down, offsets, orig_bm, remesh_type, twill, color_log, bm, twists, pc, scan, d, d0, loops_entered, loops_exited, sab,
                    braids_out, twist_prob, stream, results >>

InitPlain ==
    /\ \E md \in SmallMeshes \cup LargeMeshes : bm = BuildMesh(md)
    /\ twist_prob \in 0..RandRange
    /\ stream \in [0..(RngPeriod - 1) -> 0..(RandRange - 1)]
    /\ rng \in 0..(RngPeriod - 1)
    /\ results = << >>
    /\ calls = << >>
    /\ pc = "plain"
    /\ twists = << >>
    /\ scan = 0
    /\ d = NoLoop
    /\ d0 = NoLoop
    /\ loops_entered = {}
    /\ loops_exited = {}
    /\ sab = SAB_init
    /\ braids_out = EmptyDict
    /\ orig_bm = bm
    /\ weave_up = 0
    /\ weave_down = 0
    /\ offsets = << >>
    /\ remesh_type = "NONE"
    /\ twill = TwillIdle
    /\ color_log = << >>

NextPlain == CallCelticTwists \/ DrawElsewhere

SpecPlain == InitPlain /\ [][NextPlain]_vars

-----------------------------------------------------------------------------
(* Remeshing operations, and the closed-form labelling of a medial mesh.   *)
(* New vertex numbers: original vertex v keeps number v, the midpoint of   *)
(* edge e gets number nverts + e.                                          *)

\* cyclic_zip(l): each item paired with its successor, the last with the first
cyclic_zip(l) == [i \in 1..Len(l) |-> << l[i], l[(i % Len(l)) + 1] >>]

\* the new face with each midpoint appended before the vertex of its loop
SubdividedFace_midpoint_first(m, f) ==
    [j \in 1..(2 * Len(m.faces[f])) |->
        IF j % 2 = 1 THEN m.nverts + m.loop_edge[m.faces[f][(j + 1) \div 2]]
        ELSE m.loop_vert[m.faces[f][j \div 2]]]

\* new_face of remesh_midedge_subdivision: for each loop of the face its
\* vertex, then the midpoint of its edge
SubdividedFace(m, f) ==
    [j \in 1..(2 * Len(m.faces[f])) |->
        IF j % 2 = 1 THEN m.loop_vert[m.faces[f][(j + 1) \div 2]]
        ELSE m.nverts + m.loop_edge[m.faces[f][j \div 2]]]

remesh_midedge_subdivision(m) ==
    BMeshFromPydata(m.nverts + Len(m.edges),
                    [f \in DOMAIN m.faces |-> SubdividedFace(m, f)],
                    << >>)

\* new_face of the first loop of remesh_medial: the midpoints of the edges of
\* the face's loops
MedialFace(m, f) ==
    [i \in 1..Len(m.faces[f]) |-> m.nverts + m.loop_edge[m.faces[f][i]]]

\* the triangle built on the vertex of loop1 instead of that of loop2
FanTriangle_first_vert(m, loop1, loop2) ==
    << m.loop_vert[loop1], m.nverts + m.loop_edge[loop2], m.nverts + m.loop_edge[loop1] >>

\* [v0, v2, v1] of the second loop of remesh_medial
FanTriangle(m, loop1, loop2) ==
    << m.loop_vert[loop2], m.nverts + m.loop_edge[loop2], m.nverts + m.loop_edge[loop1] >>

\* the triangles of one face, one for each pair of cyclic_zip(face.loops)
FanTriangles(m, f) ==
    [i \in 1..Len(m.faces[f]) |->
        FanTriangle(m, cyclic_zip(m.faces[f])[i][1], cyclic_zip(m.faces[f])[i][2])]

remesh_medial(m) ==
    BMeshFromPydata(m.nverts + Len(m.edges),
                    [f \in DOMAIN m.faces |-> MedialFace(m, f)]
                        \o Flatten([f \in DOMAIN m.faces |-> FanTriangles(m, f)]),
                    << >>)

RemeshTypes == {"NONE", "EDGE_SUBDIVIDE", "MEDIAL"}

remesh(m, type) ==
    CASE type = "NONE"           -> m
      [] type = "EDGE_SUBDIVIDE" -> remesh_midedge_subdivision(m)
      [] type = "MEDIAL"         -> remesh_medial(m)

\* face.edges
FaceEdges(m, f) == {m.loop_edge[l] : l \in Range(m.faces[f])}

\* the slice taken one face too long
SliceFaces_one_more(m, n) == {f \in DOMAIN m.faces : f <= n + 1}

\* bm.faces[0:n]
SliceFaces(m, n) == {f \in DOMAIN m.faces : f <= n}

get_medial_twill_twists(m, orig_face_len) ==
    [e \in DOMAIN m.edges |->
        IF \E f \in SliceFaces(m, orig_face_len) : e \in FaceEdges(m, f)
        THEN TWIST_CCW ELSE TWIST_CW]

-----------------------------------------------------------------------------
(* The labelling stage of CelticKnotOperator.execute: the mesh is remeshed, *)
(* a twist array is computed for it, and visit_strands runs over the       *)
(* result.  (get_twill_twists is stepped through on its own below.)        *)

\* the values twist_prob is called with, in units of 1/RandRange: the
\* probabilities 0.0 .. 1.0, one value below and one above
ProbValues == (0 - 1)..(RandRange + 1)

\* bm = remesh(bm, self.remesh_type)
Remesh ==
    /\ pc = "loaded"
    /\ \E type \in RemeshTypes :
          /\ bm' = remesh(bm, type)
          /\ remesh_type' = type
    /\ pc' = "remeshed"
    /\ UNCHANGED << weave_up, weave_down, offsets, orig_bm, twill, color_log, twists, scan, d, d0, loops_entered,
                    loops_exited, sab, calls, braids_out, twist_prob, stream, rng,
                    results >>

\* twists = get_celtic_twists(bm, twist_prob), then visit_strands is entered
LabelCeltic ==
    /\ pc = "remeshed"
    /\ \E prob \in ProbValues :
          /\ twist_prob' = prob
          /\ twists' = get_celtic_twists(bm, prob, stream, rng).twists
          /\ results' = Append(results, get_celtic_twists(bm, prob, stream, rng).twists)
          /\ rng' = get_celtic_twists(bm, prob, stream, rng).rng
    /\ pc' = "scan"
    /\ UNCHANGED << weave_up, weave_down, offsets, orig_bm, remesh_type, twill, color_log, bm, scan, d, d0,
                    loops_entered, loops_exited, sab, calls, braids_out, stream >>

\* twists = get_medial_twill_twists(bm, len(orig_bm.faces)), then
\* visit_strands is entered
LabelMedial ==
    /\ pc = "remeshed"
    /\ twists' = get_medial_twill_twists(bm, Len(orig_bm.faces))
    /\ pc' = "scan"
    /\ UNCHANGED << weave_up, weave_down, offsets, orig_bm, remesh_type, twill, color_log, bm, scan, d, d0,
                    loops_entered, loops_exited, sab, calls, braids_out, twist_prob,
                    stream, rng, results >>

InitRemesh ==
    /\ \E md \in SmallMeshes \cup LargeMeshes : bm = BuildMesh(md)
    /\ orig_bm = bm
    /\ weave_up = 0
    /\ weave_down = 0
    /\ offsets = << >>
    /\ remesh_type = "NONE"
    /\ pc = "loaded"
    /\ twists = << >>
    /\ twist_prob = 0
    /\ stream = [r \in 0..(RngPeriod - 1) |-> r % RandRange]
    /\ rng = 0
    /\ results = << >>
    /\ scan = 0
    /\ d = NoLoop
    /\ d0 = NoLoop
    /\ loops_entered = {}
    /\ loops_exited = {}
    /\ sab = SAB_init
    /\ calls = << >>
    /\ braids_out = EmptyDict
    /\ twill = TwillIdle
    /\ color_log = << >>

NextRemesh ==
    \/ Remesh \/ LabelCeltic \/ LabelMedial
    \/ StartStrand \/ WalkStep \/ EndStrand \/ EndVisit \/ GetBraids

SpecRemesh == InitRemesh /\ [][NextRemesh]_vars

-----------------------------------------------------------------------------
(* get_twill_twists: the vote count                                        *)

\* coloring[e] of an edge that has no twist yet
None == "None"

reversed(dl) == DirectedLoop(dl.loop, ~dl.forward)

move(m, dl) == next_edge_loop(m, next_face_loop(m, dl))

swap(m, dl) == next_edge_loop(m, dl)

Votes(cw, ccw) == [cw |-> cw, ccw |-> ccw]

\* Votes.__add__
VotesAdd(a, b) == Votes(a.cw + b.cw, a.ccw + b.ccw)

\* coloring[dl.loop.edge.index]
TwistAt(m, coloring, dl) == coloring[m.loop_edge[dl.loop]]

edge_cond_vote(m, coloring, dloop) ==
    LET next   == move(m, dloop)
        next2  == move(m, next)
        twist1 == TwistAt(m, coloring, next)
        twist2 == TwistAt(m, coloring, next2)
    IN  IF twist1 = None \/ twist2 = None THEN Votes(0, 0)
        ELSE IF twist1 = TWIST_CW /\ twist2 = TWIST_CW THEN Votes(0, 1)
        ELSE IF twist1 = TWIST_CCW /\ twist2 = TWIST_CCW THEN Votes(1, 0)
        ELSE IF twist1 = TWIST_CW THEN Votes(1, 0)
        ELSE Votes(0, 1)

\* the same with one vote for both labels while a twist is missing
CondVote_unlabeled_both(twist_s, twist_p, twist_f) ==
    IF twist_s = None \/ twist_p = None \/ twist_f = None THEN Votes(1, 1)
    ELSE IF twist_p # twist_f
         THEN IF twist_s = TWIST_CW THEN Votes(1, 0) ELSE Votes(0, 1)
         ELSE Votes(1, 1)

\* the last lines shared by face_cond_vote and vert_cond_vote
CondVote(twist_s, twist_p, twist_f) ==
    IF twist_s = None \/ twist_p = None \/ twist_f = None THEN Votes(0, 0)
    ELSE IF twist_p # twist_f
         THEN IF twist_s = TWIST_CW THEN Votes(1, 0) ELSE Votes(0, 1)
         ELSE Votes(1, 1)

face_cond_vote(m, coloring, dloop) ==
    LET s == move(m, dloop)
        p == move(m, swap(m, reversed(dloop)))
        f == move(m, swap(m, s))
    IN  CondVote(TwistAt(m, coloring, s), TwistAt(m, coloring, p),
                 TwistAt(m, coloring, f))

vert_cond_vote(m, coloring, dloop) ==
    LET s == move(m, dloop)
        p == move(m, swap(m, dloop))
        f == move(m, swap(m, reversed(s)))
    IN  CondVote(TwistAt(m, coloring, s), TwistAt(m, coloring, p),
                 TwistAt(m, coloring, f))

\* the six votes added for one loop of the edge
LoopVotes(m, coloring, loop) ==
    VotesAdd(VotesAdd(VotesAdd(edge_cond_vote(m, coloring, DirectedLoop(loop, TRUE)),
                               edge_cond_vote(m, coloring, DirectedLoop(loop, FALSE))),
                      VotesAdd(face_cond_vote(m, coloring, DirectedLoop(loop, TRUE)),
                               face_cond_vote(m, coloring, DirectedLoop(loop, FALSE)))),
             VotesAdd(vert_cond_vote(m, coloring, DirectedLoop(loop, TRUE)),
                      vert_cond_vote(m, coloring, DirectedLoop(loop, FALSE))))

RECURSIVE SumLoopVotes(_, _, _, _)
SumLoopVotes(m, coloring, loops, n) ==
    IF n = 0 THEN Votes(0, 0)
    ELSE VotesAdd(SumLoopVotes(m, coloring, loops, n - 1),
                  LoopVotes(m, coloring, loops[n]))

count_votes(m, coloring, edge_index) ==
    SumLoopVotes(m, coloring, EdgeLinkLoops(m, edge_index),
                 Len(EdgeLinkLoops(m, edge_index)))

\* count_votes returns: swap raises IndexError on a boundary loop
VotesDefined(m, edge_index) ==
    \A l \in Range(EdgeLinkLoops(m, edge_index)) : ~is_boundary(m, l)

-----------------------------------------------------------------------------
(* get_twill_twists: the colouring loop.  choice() and the iteration order *)
(* of the frontier set and of v0.link_edges are not fixed by the model:    *)
(* every outcome is a possible step.                                       *)

\* edge.verts
EdgeVerts(m, e) == m.edges[e]

Uncolored(coloring) == {i \in DOMAIN coloring : coloring[i] = None}

\* the edges around the newly colored edge, whatever their color
FrontierAdded_any_color(m, coloring, e) ==
    UNION {VertLinkEdges(m, v) : v \in EdgeVerts(m, e)}

\* color_edge: the edges around the newly colored edge that have no color
FrontierAdded(m, coloring, e) ==
    {other \in UNION {VertLinkEdges(m, v) : v \in EdgeVerts(m, e)} :
        coloring[other] = None}

\* color_edge: the edges whose cached votes are dropped
CacheCleared(m, e) ==
    {e} \cup UNION { UNION { UNION { VertLinkEdges(m, v2) :
                                       v2 \in EdgeVerts(m, e2) \ {v1} } :
                              e2 \in VertLinkEdges(m, v1) } :
                      v1 \in EdgeVerts(m, e) }

color_edge(m, tw, e, twist) ==
    LET coloring == [tw.coloring EXCEPT ![e] = twist]
    IN  [ tw EXCEPT
            !.frontier     = (@ \ {e}) \cup FrontierAdded(m, coloring, e),
            !.coloring     = coloring,
            !.cached_votes = [x \in DOMAIN @ \ CacheCleared(m, e) |-> @[x]] ]

\* cached_votes after get_cached_vote has been called for the edges of es
CacheFilled(m, tw, es) ==
    [x \in DOMAIN tw.cached_votes \cup es |->
        IF x \in DOMAIN tw.cached_votes THEN tw.cached_votes[x]
        ELSE count_votes(m, tw.coloring, x)]

\* m = max(max(v.cw, v.ccw) for v in votes.values())
MaxVote(votes) ==
    CHOOSE n \in {votes[e].cw : e \in DOMAIN votes} \cup {votes[e].ccw : e \in DOMAIN votes} :
        \A e \in DOMAIN votes : votes[e].cw <= n /\ votes[e].ccw <= n

\* the candidates: any frontier edge
BestEdges_any(votes) == DOMAIN votes

\* the candidates handed to choice(): v.cw == m or v.ccw == m
BestEdges(votes) ==
    {k \in DOMAIN votes : votes[k].cw = MaxVote(votes) \/ votes[k].ccw = MaxVote(votes)}

SetTwist(best_votes) ==
    IF best_votes.cw > best_votes.ccw THEN TWIST_CW ELSE TWIST_CCW

\* the first pass only: a boundary found does not ask for another pass
SweepAgain_never(found) == FALSE

\* if not found_boundaries: break
SweepAgain(found) == found

\* a color_edge call, as recorded in color_log: the step that made it, the
\* picked vertex (seed), the edge, the twist, the color the edge had before
\* and the votes dict the step had built (vote)
ColorCall(kind, v0, e, twist, was, votes) ==
    [kind |-> kind, v0 |-> v0, edge |-> e, twist |-> twist, was |-> was, votes |-> votes]

\* color_log keeps the latest call only
LastCall(call) == << call >>

\* the test of `while frontier:` and the entry of the clearing loop
AfterColoring(tw) ==
    IF tw.frontier = {} THEN [tw EXCEPT !.todo = {}, !.found = FALSE]
    ELSE [tw EXCEPT !.todo = tw.frontier, !.found = FALSE]

\* the seed edge taken among all edges of the mesh
SeedEdges_any(m, v0) == Edges(m)

\* `for e in v0.link_edges: ...; break`: the edges that can come first
SeedEdges(m, v0) == VertLinkEdges(m, v0)

\* a new island: v0 = choice(bm.edges[choice(uncolored)].verts), and the
\* first of v0.link_edges is colored TWIST_CW
TwillSeed ==
    /\ pc = "twill_island"
    /\ \E e0 \in Uncolored(twill.coloring) : \E v0 \in EdgeVerts(bm, e0) :
       \E e \in SeedEdges(bm, v0) :
          LET tw == color_edge(bm, twill, e, TWIST_CW)
          IN  /\ twill' = AfterColoring(tw)
              /\ color_log' = LastCall(
                    ColorCall("seed", v0, e, TWIST_CW, twill.coloring[e], EmptyDict))
              /\ pc' = IF tw.frontier = {} THEN "twill_island" ELSE "twill_sweep"
    /\ UNCHANGED << weave_up, weave_down, offsets, orig_bm, remesh_type, bm, twists, scan, d, d0, loops_entered,
                    loops_exited, sab, calls, braids_out, twist_prob, stream, rng,
                    results >>

\* one turn of `for e in list(frontier)`
TwillSweepEdge ==
    /\ pc = "twill_sweep"
    /\ \E e \in twill.todo :
          IF Len(EdgeLinkLoops(bm, e)) = 0
          THEN \* edge.link_loops[0] raises IndexError
               /\ pc' = "twill_error"
               /\ UNCHANGED << twill, color_log >>
          ELSE IF is_boundary(bm, EdgeLinkLoops(bm, e)[1])
          THEN /\ twill' = [color_edge(bm, twill, e, IGNORE) EXCEPT
                               !.todo = twill.todo \ {e}, !.found = TRUE]
               /\ color_log' = LastCall(
                     ColorCall("boundary", 0, e, IGNORE, twill.coloring[e], EmptyDict))
               /\ pc' = "twill_sweep"
          ELSE /\ twill' = [twill EXCEPT !.todo = @ \ {e}]
               /\ pc' = "twill_sweep"
               /\ UNCHANGED color_log
    /\ UNCHANGED << weave_up, weave_down, offsets, orig_bm, remesh_type, bm, twists, scan, d, d0, loops_entered,
                    loops_exited, sab, calls, braids_out, twist_prob, stream, rng,
                    results >>

\* the for-loop has run out: another pass, or on to the votes
TwillSweepEnd ==
    /\ pc = "twill_sweep"
    /\ twill.todo = {}
    /\ IF SweepAgain(twill.found)
       THEN /\ twill' = [twill EXCEPT !.todo = twill.frontier, !.found = FALSE]
            /\ pc' = "twill_sweep"
       ELSE /\ pc' = "twill_vote"
            /\ UNCHANGED twill
    /\ UNCHANGED << weave_up, weave_down, offsets, orig_bm, remesh_type, color_log, bm, twists, scan, d, d0,
                    loops_entered, loops_exited, sab, calls, braids_out, twist_prob,
                    stream, rng, results >>

\* color the best choice of edge
TwillVote ==
    /\ pc = "twill_vote"
    /\ IF \/ twill.frontier = {}
          \/ \E e \in twill.frontier : ~VotesDefined(bm, e)
       THEN \* max() of an empty sequence raises ValueError; count_votes of a
            \* boundary edge raises IndexError
            /\ pc' = "twill_error"
            /\ UNCHANGED << twill, color_log >>
       ELSE LET filled == [twill EXCEPT
                             !.cached_votes = CacheFilled(bm, twill, twill.frontier)]
                votes  == [e \in twill.frontier |-> filled.cached_votes[e]]
            IN  \E best_edge \in BestEdges(votes) :
                   LET set_twist == SetTwist(votes[best_edge])
                       tw == color_edge(bm, filled, best_edge, set_twist)
                   IN  /\ twill' = AfterColoring(tw)
                       /\ color_log' = LastCall(
                             ColorCall("vote", 0, best_edge, set_twist,
                                       twill.coloring[best_edge], votes))
                       /\ pc' = IF tw.frontier = {} THEN "twill_island"
                                ELSE "twill_sweep"
    /\ UNCHANGED << weave_up, weave_down, offsets, orig_bm, remesh_type, bm, twists, scan, d, d0, loops_entered,
                    loops_exited, sab, calls, braids_out, twist_prob, stream, rng,
                    results >>

\* no edge is left uncolored: assert all(coloring); return coloring
TwillReturn ==
    /\ pc = "twill_island"
    /\ Uncolored(twill.coloring) = {}
    /\ twists' = twill.coloring
    /\ pc' = "twill_done"
    /\ UNCHANGED << weave_up, weave_down, offsets, orig_bm, remesh_type, twill, color_log, bm, scan, d, d0,
                    loops_entered, loops_exited, sab, calls, braids_out, twist_prob,
                    stream, rng, results >>

InitTwill ==
    /\ \E md \in TwillMeshes : bm = BuildMesh(md)
    /\ orig_bm = bm
    /\ weave_up = 0
    /\ weave_down = 0
    /\ offsets = << >>
    /\ remesh_type = "NONE"
    /\ twill = [ coloring |-> [e \in DOMAIN bm.edges |-> None], frontier |-> {},
                 cached_votes |-> EmptyDict, todo |-> {}, found |-> FALSE ]
    /\ color_log = << >>
    /\ pc = "twill_island"
    /\ twists = << >>
    /\ twist_prob = 0
    /\ stream = << >>
    /\ rng = seed(0)
    /\ results = << >>
    /\ scan = 0
    /\ d = NoLoop
    /\ d0 = NoLoop
    /\ loops_entered = {}
    /\ loops_exited = {}
    /\ sab = SAB_init
    /\ calls = << >>
    /\ braids_out = EmptyDict

NextTwill == TwillSeed \/ TwillSweepEdge \/ TwillSweepEnd \/ TwillVote \/ TwillReturn

SpecTwill == InitTwill /\ [][NextTwill]_vars

-----------------------------------------------------------------------------
(* create_bezier: the second pass of visit_strands, with a BezierBuilder.  *)
(* visit_strands is a function of bm and twists, so the builder gets the   *)
(* add_loop calls the StrandAnalysisBuilder got; its add_loop shifts the   *)
(* curve point by get_offset(...) along the normal.                        *)

\* weave_up and weave_down are lengths; they are counted in half units, so
\* that the mean taken for STRAIGHT is a whole number
MaxWeave == 1

Weaves == {2 * k : k \in 0..MaxWeave}

\* the twists get_offset ends on `assert False` for
UnexpectedTwist(twist) == twist \notin {TWIST_CW, TWIST_CCW, STRAIGHT}

\* get_offset with the facing not looked at for TWIST_CCW
get_offset_ccw_facing_ignored(up, down, twist, forward) ==
    IF twist = TWIST_CW THEN (IF forward THEN down ELSE up)
    ELSE IF twist = TWIST_CCW THEN up
    ELSE IF twist = STRAIGHT THEN (down + up) \div 2
    ELSE 0 - 1  \* no value: the assertion fails

get_offset(up, down, twist, forward) ==
    IF twist = TWIST_CW THEN (IF forward THEN down ELSE up)
    ELSE IF twist = TWIST_CCW THEN (IF forward THEN up ELSE down)
    ELSE IF twist = STRAIGHT THEN (down + up) \div 2
    ELSE 0 - 1  \* no value: the assertion fails

\* get_offset for each add_loop call of the pass
CallOffsets(cs, up, down) ==
    [i \in AddCalls(cs) |-> get_offset(up, down, cs[i].twist, cs[i].forward)]

\* execute: create_bezier(context, bm, twists, ..., self.weave_up,
\* self.weave_down, materials), after the analysis pass
CreateBezier ==
    /\ pc = "done"
    /\ \E up \in Weaves, down \in Weaves :
          /\ weave_up' = up
          /\ weave_down' = down
          /\ IF \E i \in AddCalls(calls) : UnexpectedTwist(calls[i].twist)
             THEN \* assert False, "Unexpected twist type ..."
                  /\ pc' = "fault"
                  /\ UNCHANGED offsets
             ELSE /\ pc' = "created"
                  /\ offsets' = CallOffsets(calls, up, down)
    /\ UNCHANGED << orig_bm, remesh_type, twill, color_log, bm, twists, scan, d, d0,
                    loops_entered, loops_exited, sab, calls, braids_out, twist_prob,
                    stream, rng, results >>

\* the meshes the curve is made for
WeaveMeshes ==
    { TwoTriangles, TwoTrianglesFlipped, Tetrahedron, OpenFan, Pyramid, MoebiusBand,
      Prism }

InitWeave ==
    /\ \E md \in WeaveMeshes :
          /\ bm = BuildMesh(md)
          /\ twists \in TwistArrays(md)
    /\ orig_bm = bm
    /\ remesh_type = "NONE"
    /\ twill = TwillIdle
    /\ color_log = << >>
    /\ weave_up = 0
    /\ weave_down = 0
    /\ offsets = << >>
    /\ pc = "scan"
    /\ scan = 0
    /\ d = NoLoop
    /\ d0 = NoLoop
    /\ loops_entered = {}
    /\ loops_exited = {}
    /\ sab = SAB_init
    /\ calls = << >>
    /\ braids_out = EmptyDict
    /\ twist_prob = 0
    /\ stream = << >>
    /\ rng = 0
    /\ results = << >>

NextWeave == StartStrand \/ WalkStep \/ EndStrand \/ EndVisit \/ CreateBezier

SpecWeave == InitWeave /\ [][NextWeave]_vars

-----------------------------------------------------------------------------
(* Vocabulary of the properties                                            *)

InteriorLoops(m) == {l \in Loops(m) : Len(m.edge_loops[m.loop_edge[l]]) >= 2}

\* the strand a call belongs to: the number of strands ended before it
StrandOfCall(cs, i) == Cardinality({j \in 1..(i - 1) : cs[j].op = "end_strand"})

\* the add_loop calls made since the last start_strand
OpenAdds(cs) ==
    {i \in AddCalls(cs) : \A j \in (i + 1)..Len(cs) : cs[j].op = "add_loop"}

RECURSIVE SumValues(_)
SumValues(f) ==
    IF DOMAIN f = {} THEN 0
    ELSE LET k == CHOOSE x \in DOMAIN f : TRUE
         IN  f[k] + SumValues([x \in DOMAIN f \ {k} |-> f[x]])

PassEnded == pc \in {"done", "analysed"}

\* every edge has exactly two loops, running in opposite directions
ClosedOriented(m) ==
    \A e \in Edges(m) :
        /\ Len(m.edge_loops[e]) = 2
        /\ m.loop_vert[m.edge_loops[e][1]] # m.loop_vert[m.edge_loops[e][2]]

AllCrossing(m, tw) == \A e \in Edges(m) : IsCrossing(tw[e])

-----------------------------------------------------------------------------
(* C1: in one pass of visit_strands neither assertion of make_loop fires,  *)
(* every marking is of a loop not yet marked (there are as many add_loop   *)
(* steps as loops marked entered, and as loops marked exited), and when    *)
(* the pass ends the loops marked entered, and those marked exited, are    *)
(* exactly the interior loops.                                             *)
C1_EveryLoopOnce ==
    /\ pc # "fault"
    /\ Cardinality(loops_entered) = Cardinality(AddCalls(calls))
    /\ Cardinality(loops_exited) = Cardinality(AddCalls(calls))
    /\ PassEnded => /\ loops_entered = InteriorLoops(bm)
                    /\ loops_exited = InteriorLoops(bm)

\* a pass has ended on a mesh with boundary and interior loops, having
\* passed straight through one edge and crossed at another
C1_Witness ==
    /\ pc = "done"
    /\ Cardinality(InteriorLoops(bm)) >= 6
    /\ InteriorLoops(bm) # Loops(bm)
    /\ loops_entered = InteriorLoops(bm)
    /\ \E i, j \in AddCalls(calls) :
          calls[i].twist = STRAIGHT /\ calls[j].twist = TWIST_CCW

(* C2: every strand walk stops, and it stops on the directed loop it was   *)
(* started with: next_face_loop always returns, a walk makes at most as    *)
(* many steps as there are interior loops, and whenever the break test of  *)
(* make_loop holds the cursor equals the starting (loop, forward) pair.    *)
C2_StopsAtStart ==
    /\ pc # "hang"
    /\ pc = "walk" =>
          /\ Cardinality(OpenAdds(calls)) <= Cardinality(InteriorLoops(bm))
          /\ AtBreak(d, loops_entered, loops_exited) => d = d0

\* a walk of at least three steps, started backward, is back at its start
C2_Witness ==
    /\ pc = "walk"
    /\ AtBreak(d, loops_entered, loops_exited)
    /\ d = d0
    /\ ~d0.forward
    /\ Cardinality(OpenAdds(calls)) >= 3

(* C3: the builder calls of a pass have the shape (start_strand, one or    *)
(* more add_loop, end_strand)*: add_loop only follows start_strand or      *)
(* add_loop, start_strand only comes first or after end_strand, end_strand *)
(* only follows add_loop, a finished pass ends with end_strand, and a mesh *)
(* without interior loops gets no call at all.                             *)
C3_CallShape ==
    /\ \A i \in DOMAIN calls :
          /\ calls[i].op = "add_loop" =>
                i > 1 /\ calls[i - 1].op \in {"start_strand", "add_loop"}
          /\ calls[i].op = "start_strand" =>
                i = 1 \/ calls[i - 1].op = "end_strand"
          /\ calls[i].op = "end_strand" =>
                i > 1 /\ calls[i - 1].op = "add_loop"
    /\ (PassEnded /\ calls # << >>) => calls[Len(calls)].op = "end_strand"
    /\ pc = "scan" => (calls = << >> \/ calls[Len(calls)].op = "end_strand")
    /\ pc = "walk" => (calls # << >> /\ calls[Len(calls)].op # "end_strand")
    /\ InteriorLoops(bm) = {} => calls = << >>

\* a finished pass that made at least two strands
C3_Witness ==
    /\ pc = "done"
    /\ Cardinality({i \in DOMAIN calls : calls[i].op = "end_strand"}) >= 2

\* a finished pass over a mesh with faces and no interior loop
C3_WitnessIsolated ==
    /\ pc = "done"
    /\ Loops(bm) # {}
    /\ InteriorLoops(bm) = {}
    /\ calls = << >>

(* C4: after a pass and get_braids(), two distinct strands that both       *)
(* landed on one edge with a crossing twist never show the same braid id:  *)
(* no part of the one and part of the other map to the same braid.         *)
C4_CrossingStrandsDiffer ==
    pc = "analysed" =>
        \A i, j \in AddCalls(calls) :
            ( /\ bm.loop_edge[calls[i].loop] = bm.loop_edge[calls[j].loop]
              /\ IsCrossing(twists[bm.loop_edge[calls[i].loop]])
              /\ StrandOfCall(calls, i) # StrandOfCall(calls, j) )
            => \A k1, k2 \in DOMAIN braids_out :
                  ( /\ SAB_get_strands(sab)[k1] = StrandOfCall(calls, i)
                    /\ SAB_get_strands(sab)[k2] = StrandOfCall(calls, j) )
                  => braids_out[k1] # braids_out[k2]

\* two distinct strands crossed at one edge and got braids 0 and 1
C4_Witness ==
    /\ pc = "analysed"
    /\ \E i, j \in AddCalls(calls) :
          /\ bm.loop_edge[calls[i].loop] = bm.loop_edge[calls[j].loop]
          /\ IsCrossing(twists[bm.loop_edge[calls[i].loop]])
          /\ StrandOfCall(calls, i) # StrandOfCall(calls, j)
          /\ \E k1, k2 \in DOMAIN braids_out :
                /\ SAB_get_strands(sab)[k1] = StrandOfCall(calls, i)
                /\ SAB_get_strands(sab)[k2] = StrandOfCall(calls, j)
                /\ braids_out[k1] = 0
                /\ braids_out[k2] = 1

(* C7: on a closed, consistently oriented mesh whose edges all have a      *)
(* crossing twist, a finished pass has landed exactly two add_loop calls   *)
(* on every edge, the crossing list of every edge has two entries, and the *)
(* strand sizes add up to twice the number of edges (12 on the six edges   *)
(* of a tetrahedron).                                                      *)
C7_TwoPartsPerEdge ==
    (PassEnded /\ ClosedOriented(bm) /\ AllCrossing(bm, twists)) =>
        /\ \A e \in Edges(bm) :
              /\ Cardinality({i \in AddCalls(calls) :
                                 bm.loop_edge[calls[i].loop] = e}) = 2
              /\ Len(DictGet(sab.crossings, e, << >>)) = 2
        /\ SumValues(SAB_get_strand_sizes(sab)) = 2 * Len(bm.edges)
        /\ Len(bm.edges) = 6 => SumValues(SAB_get_strand_sizes(sab)) = 12

\* a finished pass over the tetrahedron with mixed crossing twists
C7_Witness ==
    /\ pc = "done"
    /\ ClosedOriented(bm)
    /\ AllCrossing(bm, twists)
    /\ Len(bm.edges) = 6
    /\ Len(bm.faces) = 4
    /\ \E e, f \in Edges(bm) : twists[e] = TWIST_CW /\ twists[f] = TWIST_CCW
    /\ SumValues(SAB_get_strand_sizes(sab)) = 12

(* C5: get_braids() is first-fit in creation order: the braid id shown for *)
(* every part is the one a reference colouring gives its strand, where the *)
(* reference gives strand s the least natural number that is not the       *)
(* reference braid of an earlier strand sharing a crossing list with s.    *)
StrandsCross(b, s, t) ==
    /\ s # t
    /\ \E e \in DOMAIN b.crossings : {s, t} \subseteq Range(b.crossings[e])

RECURSIVE ReferenceBraid(_, _)
ReferenceBraid(b, s) ==
    LET used == {ReferenceBraid(b, t) : t \in {u \in 0..(s - 1) : StrandsCross(b, s, u)}}
    IN  SetMin({c \in 0..s : c \notin used})

C5_FirstFit ==
    pc = "queried" =>
        /\ DOMAIN braids_out = DOMAIN SAB_get_strands(sab)
        /\ \A k \in DOMAIN braids_out :
              braids_out[k] = ReferenceBraid(sab, SAB_get_strands(sab)[k])

\* strands 0 and 1 cross and get braids 0 and 1; strand 2 crosses neither
\* and gets braid 0 again
C5_Witness ==
    /\ pc = "queried"
    /\ StrandsCross(sab, 0, 1)
    /\ ~StrandsCross(sab, 2, 0)
    /\ ~StrandsCross(sab, 2, 1)
    /\ \E k0, k1, k2 \in DOMAIN braids_out :
          /\ SAB_get_strands(sab)[k0] = 0 /\ braids_out[k0] = 0
          /\ SAB_get_strands(sab)[k1] = 1 /\ braids_out[k1] = 1
          /\ SAB_get_strands(sab)[k2] = 2 /\ braids_out[k2] = 0

(* C6: after any well-bracketed sequence of builder calls, for every       *)
(* strand index i started so far get_strand_sizes()[i] is the number of    *)
(* add_loop calls made between the i-th start_strand and its end_strand.   *)
StrandsStarted(cs) == Cardinality({j \in DOMAIN cs : cs[j].op = "start_strand"})

C6_StrandSizes ==
    \A i \in 0..(StrandsStarted(calls) - 1) :
        DictGet(SAB_get_strand_sizes(sab), i, 0)
            = Cardinality({j \in AddCalls(calls) : StrandOfCall(calls, j) = i})

\* three strands ended, of sizes 2, 0 and 1
C6_Witness ==
    /\ pc = "idle"
    /\ StrandsStarted(calls) = 3
    /\ DictGet(SAB_get_strand_sizes(sab), 0, 0) = 2
    /\ DictGet(SAB_get_strand_sizes(sab), 1, 0) = 0
    /\ DictGet(SAB_get_strand_sizes(sab), 2, 0) = 1

(* C8: every array returned by get_celtic_twists has one entry per edge, in *)
(* edge order; with twist_prob 1.0 the entry of every edge with two loops  *)
(* is TWIST_CW, and with twist_prob 0.0 it is STRAIGHT.                    *)
NonBoundaryEdges(m) == {e \in Edges(m) : Len(m.edge_loops[e]) >= 2}

C8_PlainExtremes ==
    \A i \in DOMAIN results :
        /\ DOMAIN results[i] = Edges(bm)
        /\ twist_prob = RandRange =>
              \A e \in NonBoundaryEdges(bm) : results[i][e] = TWIST_CW
        /\ twist_prob = 0 =>
              \A e \in NonBoundaryEdges(bm) : results[i][e] = STRAIGHT

\* probability 1.0 on a mesh with interior, boundary and wire edges, with a
\* generator that does not always return 0
C8_Witness ==
    /\ results # << >>
    /\ twist_prob = RandRange
    /\ \E r \in DOMAIN stream : stream[r] # 0
    /\ NonBoundaryEdges(bm) # {}
    /\ \E e \in Edges(bm) : Len(bm.edge_loops[e]) = 0
    /\ \E e \in Edges(bm) : Len(bm.edge_loops[e]) = 1
    /\ \A e \in NonBoundaryEdges(bm) : results[1][e] = TWIST_CW

\* probability 0.0 with a generator that returns 0
C8_WitnessZero ==
    /\ results # << >>
    /\ twist_prob = 0
    /\ stream[0] = 0
    /\ NonBoundaryEdges(bm) # {}
    /\ \A e \in NonBoundaryEdges(bm) : results[1][e] = STRAIGHT

(* C9: get_celtic_twists labels every boundary edge (an edge with at most  *)
(* one loop, so that its loops have no radial partner) IGNORE, for every   *)
(* probability; so all four edges of an isolated quad are IGNORE.          *)
C9_BoundaryIgnored ==
    \A i \in DOMAIN results :
        \A e \in Edges(bm) :
            Len(bm.edge_loops[e]) <= 1 => results[i][e] = IGNORE

(* C10: two invocations of get_celtic_twists on the same mesh with the     *)
(* same probability return the same array, whatever state the generator    *)
(* was in and whatever was drawn from it in between.                       *)
C10_Deterministic ==
    \A i, j \in DOMAIN results : results[i] = results[j]

\* two invocations with a draw in between, entered in different generator
\* states, whose array holds TWIST_CW and STRAIGHT
C10_Witness ==
    /\ Len(results) = 2
    /\ \E i \in DOMAIN calls :
          /\ calls[i].op = "random"
          /\ \E j \in 1..(i - 1) : calls[j].op = "get_celtic_twists"
          /\ \E j \in (i + 1)..Len(calls) : calls[j].op = "get_celtic_twists"
    /\ \E e, f \in Edges(bm) : results[1][e] = TWIST_CW /\ results[1][f] = STRAIGHT
    /\ results[1] = results[2]

-----------------------------------------------------------------------------
(* Vocabulary of the remesh properties                                     *)

\* the vertices of face f of m, in loop order
FaceVerts(m, f) == [i \in DOMAIN m.faces[f] |-> m.loop_vert[m.faces[f][i]]]

\* the number of loops of all faces
NumCorners(m) == Cardinality(Loops(m))

\* the corners (loops) of the faces of m that sit at vertex v
CornersAt(m, v) == {l \in Loops(m) : m.loop_vert[l] = v}

\* twists holds the array returned by get_medial_twill_twists for bm
MedialLabelled == pc \notin {"loaded", "remeshed"} /\ results = << >>

\* the pair {a, b} of new vertices is the pair of midpoints of the edges of
\* two consecutive loops of one face of the original mesh
BoundsMedialPolygon(orig, ab) ==
    \E f \in DOMAIN orig.faces : \E i \in DOMAIN orig.faces[f] :
        ab = { orig.nverts + orig.loop_edge[orig.faces[f][i]],
               orig.nverts + orig.loop_edge[orig.loop_next[orig.faces[f][i]]] }

\* the pair {a, b} of new vertices joins the midpoints of two edges of one
\* face of the original mesh
JoinsMidpointsOfFace(orig, ab) ==
    /\ \A x \in ab : x > orig.nverts
    /\ \E f \in DOMAIN orig.faces :
          \A x \in ab : (x - orig.nverts) \in FaceEdges(orig, f)

(* C11: on the output of remesh_medial, get_medial_twill_twists called     *)
(* with the number of original faces labels an edge TWIST_CCW exactly when *)
(* it bounds a face-medial polygon, which are exactly the edges joining    *)
(* two edge midpoints of one original face, and labels every other edge    *)
(* TWIST_CW.                                                               *)
C11_MedialLabels ==
    (remesh_type = "MEDIAL" /\ MedialLabelled) =>
        /\ DOMAIN twists = Edges(bm)
        /\ \A e \in Edges(bm) :
              /\ twists[e] = TWIST_CCW <=> BoundsMedialPolygon(orig_bm, bm.edges[e])
              /\ twists[e] = TWIST_CCW <=> JoinsMidpointsOfFace(orig_bm, bm.edges[e])
              /\ twists[e] # TWIST_CCW => twists[e] = TWIST_CW

\* a medial mesh of an original with a quad and a triangle has been
\* labelled, with both labels in use
C11_Witness ==
    /\ remesh_type = "MEDIAL"
    /\ MedialLabelled
    /\ \E f, g \in DOMAIN orig_bm.faces :
          Len(orig_bm.faces[f]) = 4 /\ Len(orig_bm.faces[g]) = 3
    /\ \E e, f \in Edges(bm) : twists[e] = TWIST_CCW /\ twists[f] = TWIST_CW

(* C12: the edge-subdivide remesh of a mesh with V vertices, E edges and F *)
(* faces has V+E vertices and F faces; face f of the new mesh has twice as *)
(* many corners as face f of the original, its odd corners are the         *)
(* original vertices of the face in loop order and each even corner is the *)
(* midpoint of the original edge joining the corners before and after it.  *)
C12_SubdivideShape ==
    remesh_type = "EDGE_SUBDIVIDE" =>
        /\ bm.nverts = orig_bm.nverts + Len(orig_bm.edges)
        /\ Len(bm.faces) = Len(orig_bm.faces)
        /\ \A f \in DOMAIN bm.faces :
              LET k  == Len(orig_bm.faces[f])
                  nv == FaceVerts(bm, f)
              IN  /\ Len(nv) = 2 * k
                  /\ \A i \in 1..k :
                        /\ nv[2 * i - 1] = FaceVerts(orig_bm, f)[i]
                        /\ nv[2 * i - 1] <= orig_bm.nverts
                        /\ nv[2 * i] > orig_bm.nverts
                        /\ orig_bm.edges[nv[2 * i] - orig_bm.nverts]
                              = { nv[2 * i - 1], nv[((2 * i) % (2 * k)) + 1] }

\* the subdivision of the quad-and-triangle mesh, whose wire edge gives a
\* midpoint that no face uses: an octagon and a hexagon
C12_Witness ==
    /\ remesh_type = "EDGE_SUBDIVIDE"
    /\ Len(orig_bm.edges) = 7
    /\ bm.nverts = 13
    /\ Len(bm.faces) = 2
    /\ Len(bm.faces[1]) = 8
    /\ Len(bm.faces[2]) = 6
    /\ \E v \in 1..bm.nverts : CornersAt(bm, v) = {}

(* C13 as claimed: remesh_medial emits one face-medial polygon per         *)
(* original face, joining its edge midpoints in loop order, and fan        *)
(* triangles exactly for the original vertices with at least two incident  *)
(* faces: no triangle holds an original vertex with fewer than two         *)
(* incident faces, and every vertex with at least two has its triangles.   *)
C13_FanOnlyAtSharedVerts ==
    remesh_type = "MEDIAL" =>
        /\ \A f \in DOMAIN orig_bm.faces : FaceVerts(bm, f) = MedialFace(orig_bm, f)
        /\ \A v \in 1..orig_bm.nverts :
              LET fan == {g \in DOMAIN bm.faces :
                             g > Len(orig_bm.faces) /\ v \in Range(FaceVerts(bm, g))}
              IN  IF Cardinality(CornersAt(orig_bm, v)) >= 2
                  THEN fan # {}
                  ELSE fan = {}

(* C13 as amended: remesh_medial emits one face-medial polygon per         *)
(* original face, joining its edge midpoints in loop order, and after them *)
(* one triangle (vertex, midpoint, midpoint) per corner of every original  *)
(* face, made of the corner's vertex and the midpoints of the two edges of *)
(* that face that meet there; so a vertex gets as many triangles as it has *)
(* incident face corners, also when it has only one.                       *)
C13_FanPerCorner ==
    remesh_type = "MEDIAL" =>
        /\ Len(bm.faces) = Len(orig_bm.faces) + NumCorners(orig_bm)
        /\ \A f \in DOMAIN orig_bm.faces : FaceVerts(bm, f) = MedialFace(orig_bm, f)
        /\ \A g \in DOMAIN bm.faces : g > Len(orig_bm.faces) =>
              LET t == FaceVerts(bm, g)
              IN  /\ Len(t) = 3
                  /\ t[1] <= orig_bm.nverts
                  /\ \E l \in CornersAt(orig_bm, t[1]) :
                        /\ t[2] = orig_bm.nverts + orig_bm.loop_edge[l]
                        /\ t[3] = orig_bm.nverts + orig_bm.loop_edge[orig_bm.loop_prev[l]]
                  /\ t[1] \in orig_bm.edges[t[2] - orig_bm.nverts]
                  /\ t[1] \in orig_bm.edges[t[3] - orig_bm.nverts]
        /\ \A v \in 1..orig_bm.nverts :
              Cardinality({g \in DOMAIN bm.faces :
                              g > Len(orig_bm.faces) /\ v \in Range(FaceVerts(bm, g))})
                 = Cardinality(CornersAt(orig_bm, v))

\* the medial mesh of the quad-and-triangle mesh: vertices with two, one
\* and no incident face, and seven triangles after the two polygons
C13_Witness ==
    /\ remesh_type = "MEDIAL"
    /\ Len(orig_bm.faces) = 2
    /\ Len(bm.faces) = 9
    /\ \E v \in 1..orig_bm.nverts : Cardinality(CornersAt(orig_bm, v)) = 2
    /\ \E v \in 1..orig_bm.nverts :
          /\ Cardinality(CornersAt(orig_bm, v)) = 1
          /\ \E g \in DOMAIN bm.faces :
                g > Len(orig_bm.faces) /\ FaceVerts(bm, g)[1] = v
    /\ \E v \in 1..orig_bm.nverts : CornersAt(orig_bm, v) = {}

(* C15: configuration errors are rejected before any traversal: a          *)
(* probability outside [0,1] passed to get_celtic_twists gives no twist    *)
(* array and no builder call, and so does get_medial_twill_twists asked    *)
(* for on a mesh that the medial remesh did not produce.                   *)
C15_ConfigRejected ==
    /\ twist_prob \notin 0..RandRange =>
          results = << >> /\ twists = << >> /\ calls = << >>
    /\ (remesh_type # "MEDIAL" /\ MedialLabelled) =>
          twists = << >> /\ calls = << >>

-----------------------------------------------------------------------------
(* Vocabulary of the twill properties                                      *)

\* the edge has exactly one loop: is_boundary(edge.link_loops[0])
BoundaryEdge(m, e) == Len(EdgeLinkLoops(m, e)) = 1

\* the edges sharing a vertex with e, e left out
Neighbours(m, e) == UNION {VertLinkEdges(m, v) : v \in EdgeVerts(m, e)} \ {e}

Colored(coloring) == {e \in DOMAIN coloring : coloring[e] # None}

\* the latest color_edge call was made by the given step
LastColorBy(kind) == color_log # << >> /\ color_log[1].kind = kind

MaxOf(v) == IF v.cw >= v.ccw THEN v.cw ELSE v.ccw

(* C14: get_twill_twists is total on every mesh whose edges each have one  *)
(* or two loops: it raises no exception, and when it returns every edge    *)
(* has a twist.                                                            *)
C14_TwillTotal ==
    (\A e \in Edges(bm) : Len(EdgeLinkLoops(bm, e)) \in {1, 2}) =>
        /\ pc # "twill_error"
        /\ pc = "twill_done" =>
              /\ DOMAIN twists = Edges(bm)
              /\ \A e \in Edges(bm) : twists[e] \in TwistTypes

(* C16: every color_edge call is made on an edge that has no label yet, so *)
(* no label is ever replaced, and in every state the frontier holds only   *)
(* unlabeled edges, each sharing a vertex with a labeled edge.             *)
C16_ColoredOnce ==
    /\ color_log # << >> =>
          /\ color_log[1].was = None
          /\ twill.coloring[color_log[1].edge] = color_log[1].twist
    /\ \A e \in twill.frontier :
          /\ twill.coloring[e] = None
          /\ \E f \in Neighbours(bm, e) : twill.coloring[f] # None
    /\ twill.todo \subseteq twill.frontier

\* a vote has colored a fourth edge and the frontier still holds two edges
C16_Witness ==
    /\ LastColorBy("vote")
    /\ Cardinality(Colored(twill.coloring)) >= 4
    /\ Cardinality(twill.frontier) >= 2

(* C17 as claimed: the seed step labels all non-boundary edges at the      *)
(* picked vertex TWIST_CW, and no boundary edge, before any vote is taken. *)
C17_SeedAllIncident ==
    LastColorBy("seed") =>
        \A e \in VertLinkEdges(bm, color_log[1].v0) :
            IF BoundaryEdge(bm, e) THEN twill.coloring[e] # TWIST_CW
            ELSE twill.coloring[e] = TWIST_CW

(* C17 as amended: the seed step labels exactly one edge TWIST_CW, an edge *)
(* at the picked vertex that may be a boundary edge; when it has done so   *)
(* no edge sharing a vertex with that edge has a label yet (no vote has    *)
(* been taken in the component), and all of them are in the frontier.      *)
C17_SeedOneEdge ==
    LastColorBy("seed") =>
        LET c == color_log[1]
        IN  /\ c.edge \in VertLinkEdges(bm, c.v0)
            /\ c.twist = TWIST_CW
            /\ c.was = None
            /\ twill.coloring[c.edge] = TWIST_CW
            /\ \A e \in Neighbours(bm, c.edge) : twill.coloring[e] = None
            /\ twill.frontier = Neighbours(bm, c.edge)

\* an island has been seeded with a boundary edge, at a vertex that has
\* three edges or more, one of them not a boundary edge
C17_Witness ==
    /\ LastColorBy("seed")
    /\ BoundaryEdge(bm, color_log[1].edge)
    /\ Cardinality(VertLinkEdges(bm, color_log[1].v0)) >= 3
    /\ \E e \in VertLinkEdges(bm, color_log[1].v0) : ~BoundaryEdge(bm, e)

(* C18: IGNORE is only ever the label of a boundary edge, the edge colored *)
(* by a vote is never a boundary edge, and when the votes are taken no     *)
(* edge of the frontier is a boundary edge.                                *)
C18_IgnoreOnlyBoundary ==
    /\ \A e \in Edges(bm) : twill.coloring[e] = IGNORE => BoundaryEdge(bm, e)
    /\ LastColorBy("boundary") => color_log[1].twist = IGNORE
    /\ LastColorBy("vote") =>
          /\ Len(EdgeLinkLoops(bm, color_log[1].edge)) >= 2
          /\ color_log[1].twist # IGNORE
    /\ pc = "twill_vote" =>
          \A e \in twill.frontier : Len(EdgeLinkLoops(bm, e)) >= 2

\* the votes are about to be taken after a second clearing pass has
\* labeled a boundary edge that the first pass had put in the frontier
C18_Witness ==
    /\ pc = "twill_vote"
    /\ twill.frontier # {}
    /\ LastColorBy("boundary")
    /\ Cardinality({e \in Edges(bm) : twill.coloring[e] = IGNORE}) >= 3

(* C19: the edge colored by a vote step is an edge of the votes dict whose *)
(* max(cw, ccw) is the greatest of the dict, and it gets TWIST_CW when its *)
(* cw is greater than its ccw and TWIST_CCW when its ccw is greater.       *)
C19_BestVote ==
    LastColorBy("vote") =>
        LET c == color_log[1]
        IN  /\ c.edge \in DOMAIN c.votes
            /\ \A e \in DOMAIN c.votes : MaxOf(c.votes[e]) <= MaxOf(c.votes[c.edge])
            /\ c.votes[c.edge].cw > c.votes[c.edge].ccw => c.twist = TWIST_CW
            /\ c.votes[c.edge].ccw > c.votes[c.edge].cw => c.twist = TWIST_CCW
            /\ c.twist \in {TWIST_CW, TWIST_CCW}

\* a vote step chose, among three edges with different votes, one whose cw
\* was the greater
C19_Witness ==
    /\ LastColorBy("vote")
    /\ Cardinality(DOMAIN color_log[1].votes) >= 3
    /\ \E e \in DOMAIN color_log[1].votes :
          MaxOf(color_log[1].votes[e]) < MaxOf(color_log[1].votes[color_log[1].edge])
    /\ color_log[1].votes[color_log[1].edge].cw > color_log[1].votes[color_log[1].edge].ccw
    /\ color_log[1].twist = TWIST_CW

\* the twists read by the three rules from dloop: (twist1, twist2) of
\* edge_cond_vote, (twist_s, twist_p, twist_f) of the other two
EdgePathTwists(m, coloring, dloop) ==
    << TwistAt(m, coloring, move(m, dloop)),
       TwistAt(m, coloring, move(m, move(m, dloop))) >>

FacePathTwists(m, coloring, dloop) ==
    << TwistAt(m, coloring, move(m, dloop)),
       TwistAt(m, coloring, move(m, swap(m, reversed(dloop)))),
       TwistAt(m, coloring, move(m, swap(m, move(m, dloop)))) >>

VertPathTwists(m, coloring, dloop) ==
    << TwistAt(m, coloring, move(m, dloop)),
       TwistAt(m, coloring, move(m, swap(m, dloop))),
       TwistAt(m, coloring, move(m, swap(m, reversed(move(m, dloop))))) >>

SomeUnlabeled(tws) == \E i \in DOMAIN tws : tws[i] = None

SingleVote(v) == v \in {Votes(1, 0), Votes(0, 1)}

\* the directed loops the votes are counted from: both facings of every
\* loop of an edge with two loops or more
VotingLoops(m) == {DirectedLoop(l, fw) : l \in InteriorLoops(m), fw \in BOOLEAN}

\* the states in which the rules are looked at: the votes are about to be
\* taken, or the coloring is complete
VotesLookedAt == pc \in {"twill_vote", "twill_done"}

(* C20 as claimed: from one directed loop each rule gives 0 or 1 vote to a *)
(* single label when the twists along its path are all assigned, and 1     *)
(* vote to both labels when one of them is still missing.                  *)
C20_RuleVotes ==
    VotesLookedAt =>
    \A dl \in VotingLoops(bm) :
        /\ IF SomeUnlabeled(EdgePathTwists(bm, twill.coloring, dl))
           THEN edge_cond_vote(bm, twill.coloring, dl) = Votes(1, 1)
           ELSE edge_cond_vote(bm, twill.coloring, dl)
                   \in {Votes(0, 0), Votes(1, 0), Votes(0, 1)}
        /\ IF SomeUnlabeled(FacePathTwists(bm, twill.coloring, dl))
           THEN face_cond_vote(bm, twill.coloring, dl) = Votes(1, 1)
           ELSE face_cond_vote(bm, twill.coloring, dl)
                   \in {Votes(0, 0), Votes(1, 0), Votes(0, 1)}
        /\ IF SomeUnlabeled(VertPathTwists(bm, twill.coloring, dl))
           THEN vert_cond_vote(bm, twill.coloring, dl) = Votes(1, 1)
           ELSE vert_cond_vote(bm, twill.coloring, dl)
                   \in {Votes(0, 0), Votes(1, 0), Votes(0, 1)}

(* C20 as amended: from one directed loop each rule gives no vote while a  *)
(* twist along its path is missing; when they are all assigned the edge    *)
(* rule gives 1 vote to a single label, and the face and the vertex rule   *)
(* give 1 vote to a single label when twist_p differs from twist_f and 1   *)
(* vote to both labels when twist_p equals twist_f.                        *)
C20_RuleVotesAmended ==
    VotesLookedAt =>
    \A dl \in VotingLoops(bm) :
        /\ IF SomeUnlabeled(EdgePathTwists(bm, twill.coloring, dl))
           THEN edge_cond_vote(bm, twill.coloring, dl) = Votes(0, 0)
           ELSE SingleVote(edge_cond_vote(bm, twill.coloring, dl))
        /\ LET t == FacePathTwists(bm, twill.coloring, dl)
               v == face_cond_vote(bm, twill.coloring, dl)
           IN  IF SomeUnlabeled(t) THEN v = Votes(0, 0)
               ELSE IF t[2] # t[3] THEN SingleVote(v) ELSE v = Votes(1, 1)
        /\ LET t == VertPathTwists(bm, twill.coloring, dl)
               v == vert_cond_vote(bm, twill.coloring, dl)
           IN  IF SomeUnlabeled(t) THEN v = Votes(0, 0)
               ELSE IF t[2] # t[3] THEN SingleVote(v) ELSE v = Votes(1, 1)

\* the loops of the frontier edges, in both facings
FrontierLoops ==
    {DirectedLoop(l, fw) :
        l \in UNION {Range(EdgeLinkLoops(bm, e)) : e \in twill.frontier},
        fw \in BOOLEAN}

\* the votes are about to be taken in a state where, from the loops of
\* the frontier edges, the face rule gives no vote on a path with a twist
\* missing and one vote to both labels on a path fully assigned, and the
\* edge rule gives a single vote
C20_Witness ==
    /\ pc = "twill_vote"
    /\ \E dl \in FrontierLoops :
          /\ SomeUnlabeled(FacePathTwists(bm, twill.coloring, dl))
          /\ face_cond_vote(bm, twill.coloring, dl) = Votes(0, 0)
    /\ \E dl \in FrontierLoops :
          /\ ~SomeUnlabeled(FacePathTwists(bm, twill.coloring, dl))
          /\ face_cond_vote(bm, twill.coloring, dl) = Votes(1, 1)
    /\ \E dl \in FrontierLoops :
          SingleVote(edge_cond_vote(bm, twill.coloring, dl))

(* C21 as claimed: when the votes are taken, the vote get_cached_vote      *)
(* returns for every edge of the frontier is the vote count_votes computes *)
(* from the current coloring.                                              *)
C21_CacheFresh ==
    (/\ pc = "twill_vote"
     /\ \A e \in twill.frontier : VotesDefined(bm, e)) =>
        \A e \in twill.frontier :
            CacheFilled(bm, twill, twill.frontier)[e]
                = count_votes(bm, twill.coloring, e)

\* the loops of edges that have exactly two loops
TwoLoopEdgeLoops(m) ==
    {l \in Loops(m) : Len(EdgeLinkLoops(m, m.loop_edge[l])) = 2}

\* the two loops of the edge start at different ends of it
RunOpposite(m, l1, l2) == m.loop_vert[l1] # m.loop_vert[l2]

(* C22: on an edge with exactly two loops next_edge_loop goes to the other *)
(* loop of the edge, applying it twice gives back the directed loop it     *)
(* started from, for either forward flag, and when the two loops run in    *)
(* opposite directions along the edge one application inverts the flag.    *)
C22_EdgeLoopInvolution ==
    \A l \in TwoLoopEdgeLoops(bm) : \A fw \in BOOLEAN :
        LET dl == DirectedLoop(l, fw)
            n  == next_edge_loop(bm, dl)
        IN  /\ n.loop # l
            /\ bm.loop_edge[n.loop] = bm.loop_edge[l]
            /\ next_edge_loop(bm, n) = dl
            /\ RunOpposite(bm, l, n.loop) => n.forward = ~fw

\* the walk has just crossed a two-loop edge whose loops run in opposite
\* directions, with the flag inverted, and crossing back gives the
\* directed loop it came from
C22_Witness ==
    /\ pc = "walk"
    /\ calls # << >>
    /\ LET c == calls[Len(calls)]
       IN  /\ c.op = "add_loop"
           /\ IsCrossing(c.twist)
           /\ c.loop \in TwoLoopEdgeLoops(bm)
           /\ RunOpposite(bm, c.prev_loop, c.loop)
           /\ d = next_edge_loop(bm, DirectedLoop(c.prev_loop, ~c.forward))
           /\ next_edge_loop(bm, d) = DirectedLoop(c.prev_loop, ~c.forward)

\* the same on an edge whose loops run in the same direction: the flag is
\* kept, and crossing back gives the directed loop the walk came from
C22_WitnessSameDirection ==
    /\ pc = "walk"
    /\ calls # << >>
    /\ LET c == calls[Len(calls)]
       IN  /\ c.op = "add_loop"
           /\ IsCrossing(c.twist)
           /\ c.loop \in TwoLoopEdgeLoops(bm)
           /\ ~RunOpposite(bm, c.prev_loop, c.loop)
           /\ d = next_edge_loop(bm, DirectedLoop(c.prev_loop, c.forward))
           /\ next_edge_loop(bm, d) = DirectedLoop(c.prev_loop, c.forward)

\* the StrandPart key of the add_loop call recorded at position i
KeyOfCall(m, cs, i) == strand_part(m, cs[i].prev_loop, cs[i].loop, cs[i].forward)

(* C24: in one pass no two add_loop calls have the same StrandPart key,    *)
(* whatever the twists; so when the pass has ended get_strands() has one   *)
(* entry per add_loop call, and that number is the sum of the strand sizes *)
(* and the number of interior loops.                                       *)
C24_DistinctParts ==
    /\ \A i, j \in AddCalls(calls) :
          i # j => KeyOfCall(bm, calls, i) # KeyOfCall(bm, calls, j)
    /\ PassEnded =>
          /\ Cardinality(DOMAIN SAB_get_strands(sab)) = Cardinality(AddCalls(calls))
          /\ Cardinality(AddCalls(calls)) = SumValues(SAB_get_strand_sizes(sab))
          /\ Cardinality(AddCalls(calls)) = Cardinality(InteriorLoops(bm))

\* every edge has one or two loops, and the two loops of an edge run in
\* opposite directions
OrientedManifold(m) ==
    \A e \in Edges(m) :
        /\ Len(m.edge_loops[e]) \in {1, 2}
        /\ Len(m.edge_loops[e]) = 2 =>
              RunOpposite(m, m.edge_loops[e][1], m.edge_loops[e][2])

\* the add_loop calls that landed on edge e
CallsOnEdge(m, cs, e) == {i \in AddCalls(cs) : m.loop_edge[cs[i].loop] = e}

\* the interior edges with a crossing twist
CrossingEdges(m, tw) ==
    {e \in Edges(m) : Len(m.edge_loops[e]) = 2 /\ IsCrossing(tw[e])}

(* C23: on a consistently oriented manifold mesh, once the pass has ended  *)
(* every interior edge with a crossing twist has got two add_loop calls,   *)
(* with opposite forward flags; and in the curve made from the pass        *)
(* get_offset has given one of the two weave_up and the other weave_down.  *)
C23_OverAndUnder ==
    OrientedManifold(bm) =>
        \A e \in CrossingEdges(bm, twists) :
            /\ pc \in {"done", "created"} =>
                  \E i, j \in CallsOnEdge(bm, calls, e) :
                      /\ CallsOnEdge(bm, calls, e) = {i, j}
                      /\ calls[i].forward /\ ~calls[j].forward
            /\ pc = "created" =>
                  \E i, j \in CallsOnEdge(bm, calls, e) :
                      /\ CallsOnEdge(bm, calls, e) = {i, j}
                      /\ offsets[i] = weave_up
                      /\ offsets[j] = weave_down
                      /\ i # j

\* the curve has been made, with different weave_up and weave_down, for a
\* consistently oriented mesh that has a TWIST_CW and a TWIST_CCW interior
\* edge, a STRAIGHT edge and a boundary edge
C23_Witness ==
    /\ pc = "created"
    /\ weave_up # weave_down
    /\ OrientedManifold(bm)
    /\ \E e, f \in CrossingEdges(bm, twists) : twists[e] = TWIST_CW /\ twists[f] = TWIST_CCW
    /\ \E e \in Edges(bm) : Len(bm.edge_loops[e]) = 2 /\ twists[e] = STRAIGHT
    /\ \E e \in Edges(bm) : Len(bm.edge_loops[e]) = 1
    /\ \E i, j \in DOMAIN offsets :
          /\ bm.loop_edge[calls[i].loop] = bm.loop_edge[calls[j].loop]
          /\ offsets[i] = weave_up
          /\ offsets[j] = weave_down

=============================================================================
